---------------------------- MODULE Spec2Model ----------------------------
(***************************************************************************)
(* A model of PDFMail.py: the address normaliser (PDF.setAddressList),     *)
(* the page grouper and assembler (PDF.createPDF with newPageOne,          *)
(* newPageTwo and addTwoPages) and the driver doit.                        *)
(*                                                                         *)
(* Strings are sequences of character codes (Python compares str by code   *)
(* point), lengths are in thousandths of an inch.                          *)
(***************************************************************************)
EXTENDS Integers, Sequences, FiniteSets, TLC

(***************************************************************************)
(* Bounds of the model.                                                    *)
(***************************************************************************)
MaxRows == 4        \* rows of the csv file, header rows included
MaxPages == 2       \* largest -np value tried
MaxSkip == 1        \* largest -skip value tried

(***************************************************************************)
(* Characters and strings.                                                 *)
(***************************************************************************)
NL == 10            \* "\n"
SP == 32            \* " "
QUOTE == 34         \* '"'
EQ == 61            \* "="

EmptyStr == << >>

Min(a, b) == IF a < b THEN a ELSE b

Max(a, b) == IF a < b THEN b ELSE a

\* sep.join(strs)
RECURSIVE Join(_, _)
Join(strs, sep) ==
    IF strs = << >> THEN EmptyStr
    ELSE IF Len(strs) = 1 THEN strs[1]
    ELSE strs[1] \o sep \o Join(Tail(strs), sep)

\* s.split(sep) for a one-character sep: always at least one piece
RECURSIVE Split(_, _)
Split(s, sep) ==
    IF s = << >> THEN << EmptyStr >>
    ELSE LET rest == Split(Tail(s), sep)
         IN  IF Head(s) = sep THEN << EmptyStr >> \o rest
             ELSE << << Head(s) >> \o rest[1] >> \o Tail(rest)

\* a < b for Python str: lexicographic on code points
RECURSIVE StrLess(_, _)
StrLess(a, b) ==
    IF b = << >> THEN FALSE
    ELSE IF a = << >> THEN TRUE
    ELSE IF Head(a) # Head(b) THEN Head(a) < Head(b)
    ELSE StrLess(Tail(a), Tail(b))

\* seq[lo:hi] with 0-based Python bounds, 0 <= lo, hi possibly negative
PySlice(seq, lo, hi) ==
    LET n == Len(seq)
        h == IF hi < 0 THEN Max(n + hi, 0) ELSE Min(hi, n)
    IN  IF h <= lo THEN << >> ELSE SubSeq(seq, lo + 1, h)

\* seq[start:stop:2] for 0 <= start <= stop <= len(seq)
EveryOther(seq, start, stop) ==
    [k \in 1..((stop - start + 1) \div 2) |-> seq[start + 2 * (k - 1) + 1]]

\* list(zip(xs, ys))
Zip(xs, ys) == [k \in 1..Min(Len(xs), Len(ys)) |-> << xs[k], ys[k] >>]

(***************************************************************************)
(* The csv file.  A raw row is the list of fields csv.reader returns.      *)
(***************************************************************************)
\* "ab","s","c","t","10"
RowA == << <<97, 98>>, <<115>>, <<99>>, <<116>>, <<49, 48>> >>
\* "abcdefg" in double quotes, and the ZIP exported as the formula ="2"
RowB == << <<QUOTE, 97, 98, 99, 100, 101, 102, 103, QUOTE>>, <<115>>, <<99>>, <<116>>,
           <<EQ, QUOTE, 50, QUOTE>> >>
\* a name cut by a line break: the first line alone
Frag1 == << <<120>> >>
\* a row one field short
Frag4 == << <<121>>, <<115>>, <<99>>, <<116>> >>

RowSet == {RowA, RowB, Frag1, Frag4}

Tables == UNION {[1..n -> RowSet] : n \in 0..MaxRows}

VARIABLES
    pc,           \* position of doit
    table,        \* rows of the csv file
    files,        \* image files written by extractImgsFromPDF
    tableRead,    \* the csv file has been opened and read
    numPerPage,   \* PDF.numPerPage
    sortByZip,    \* PDF.sortByZip
    addresses,    \* PDF.addresses
    headerLines,  \* argument of the setAddressList call
    aR,           \* setAddressList: the repaired rows (local aR)
    allRows,      \* setAddressList: local allRows when the strings are built
    numPages,     \* argument of the createPDF call
    testMode,     \* argument of the createPDF call
    entry,        \* createPDF: PDF.addresses as found on entry
    grouped,      \* createPDF: local addresses after grouping
    rendered,     \* createPDF: the units handed to newPageOne / newPageTwo
    pages,        \* the pages added to the document, in order
    written       \* number of times the document was written to outFile

vars == << pc, table, files, tableRead, numPerPage, sortByZip, addresses,
           headerLines, aR, allRows, numPages, testMode, entry, grouped,
           rendered, pages, written >>

(***************************************************************************)
(* PDF.setAddressList                                                      *)
(***************************************************************************)
\* r.replace('"','').replace("=","")
StripField(r) == SelectSeq(r, LAMBDA c : c # QUOTE /\ c # EQ)

\* the first loop: skip headerLines rows, strip every field of the others
ReadRows(rows, skip) ==
    [k \in 1..Max(Len(rows) - skip, 0) |->
        [f \in 1..Len(rows[k + skip]) |-> StripField(rows[k + skip][f])]]

\* variant: the trailing newline after the joined fragment is forgotten
MergedInto_NoNewline(row, next) == << Join(row, << NL >>) >> \o next

\* what a row shorter than 5 fields puts in front of the row that follows it
MergedInto(row, next) == << Join(row, << NL >>) \o << NL >> >> \o next

\* the second loop, from index ii (1-based) on, acc being aR so far;
\* allRows[ii+1] past the end of the list raises IndexError
RECURSIVE Repair(_, _, _)
Repair(rows, ii, acc) ==
    IF ii > Len(rows) THEN [ok |-> TRUE, rows |-> acc]
    ELSE IF Len(rows[ii]) < 5
         THEN IF ii + 1 > Len(rows)
              THEN [ok |-> FALSE, rows |-> acc]
              ELSE Repair([rows EXCEPT ![ii + 1] = MergedInto(rows[ii], rows[ii + 1])],
                          ii + 1, acc)
         ELSE Repair(rows, ii + 1, Append(acc, rows[ii]))

\* x[-1]
ZipOf(row) == row[Len(row)]

\* variant: the ZIPs compared as numbers, key=lambda x: int(x[-1])
ZipBefore_Numeric(x, y) ==
    \/ Len(ZipOf(x)) < Len(ZipOf(y))
    \/ Len(ZipOf(x)) = Len(ZipOf(y)) /\ StrLess(ZipOf(x), ZipOf(y))

\* key(x) < key(y) for key=lambda x: x[-1]
ZipBefore(x, y) == StrLess(ZipOf(x), ZipOf(y))

\* insertion of x in front of the first row whose key is greater
RECURSIVE InsertByZip(_, _)
InsertByZip(x, seq) ==
    IF seq = << >> THEN << x >>
    ELSE IF ZipBefore(x, Head(seq)) THEN << x >> \o seq
    ELSE << Head(seq) >> \o InsertByZip(x, Tail(seq))

\* sorted(allRows, key=lambda x: x[-1]), a stable sort
RECURSIVE SortedByZip(_)
SortedByZip(rows) ==
    IF rows = << >> THEN << >>
    ELSE InsertByZip(rows[Len(rows)], SortedByZip(SubSeq(rows, 1, Len(rows) - 1)))

\* "\n".join(row[0:-3] + [" ".join(row[-3:])]) for a row of 5 fields or more
AddressString(row) ==
    LET n == Len(row)
        city == Join(SubSeq(row, n - 2, n), << SP >>)
    IN  Join(Append(SubSeq(row, 1, n - 3), city), << NL >>)

SetAddressList ==
    /\ pc = "list"
    /\ \E skip \in 0..MaxSkip, sort \in BOOLEAN :
          LET rep == Repair(ReadRows(table, skip), 1, << >>)
              fin == IF sort THEN SortedByZip(rep.rows) ELSE rep.rows
          IN  /\ headerLines' = skip
              /\ sortByZip' = sort
              /\ tableRead' = TRUE
              /\ IF rep.ok
                 THEN /\ aR' = rep.rows
                      /\ allRows' = fin
                      /\ addresses' = [k \in 1..Len(fin) |-> AddressString(fin[k])]
                      /\ pc' = "create"
                 ELSE /\ pc' = "failed"
                      /\ UNCHANGED << aR, allRows, addresses >>
    /\ UNCHANGED << table, files, numPerPage, numPages, testMode, entry,
                    grouped, rendered, pages, written >>

(***************************************************************************)
(* Pages: addTwoPages, newPageOne, newPageTwo.  A page is the list of      *)
(* image placements and the list of text cells put on it.                  *)
(***************************************************************************)
LetterShort == 8500     \* format='letter': 8.5 in
LetterLong == 11000     \* format='letter': 11 in
Margin == 0             \* -margin, default
XAdjust == 0            \* -x, default
YAdjust == 0            \* -y, default

\* orientation 'P' if numPerPage==2 else 'L'
SheetW(npp) == IF npp = 2 THEN LetterShort ELSE LetterLong

SheetH(npp) == IF npp = 2 THEN LetterLong ELSE LetterShort

\* self.image(img, x=self.margin, y=self.margin, w=w, h=h)
ImageAt(img, npp) ==
    [img |-> img, x |-> Margin, y |-> Margin,
     w |-> SheetW(npp) - 2 * Margin, h |-> SheetH(npp) - 2 * Margin]

\* the pages addTwoPages adds: the recto page unless onlyVerso, then the verso page
AddTwoPages(npp, onlyVerso) ==
    (IF onlyVerso THEN << >>
     ELSE << [images |-> << ImageAt("recto", npp) >>, texts |-> << >>] >>)
    \o << [images |-> << ImageAt("verso", npp) >>, texts |-> << >>] >>

\* set_xy then multi_cell: one text cell at (x, y), w wide, lines h apart
Cell(npp, y, h, txt) ==
    LET x == (6 * SheetW(npp)) \div 10 + XAdjust
    IN  [x |-> x, y |-> y, w |-> SheetW(npp) - Margin - 500 - x, h |-> h, txt |-> txt]

\* the text cells go on the page added last
WithTexts(pgs, cells) ==
    [pgs EXCEPT ![Len(pgs)] = [@ EXCEPT !.texts = @ \o cells]]

NewPageOne(address, onlyVerso) ==
    WithTexts(AddTwoPages(1, onlyVerso),
              << Cell(1, (55 * SheetH(1)) \div 100 + YAdjust, 250, address) >>)

NewPageTwo(address1, address2, onlyVerso) ==
    LET yAddress == (3 * SheetH(2)) \div 10 + YAdjust
    IN  WithTexts(AddTwoPages(2, onlyVerso),
                  << Cell(2, yAddress, 200, address1),
                     Cell(2, yAddress + SheetH(2) \div 2, 200, address2) >>)

(***************************************************************************)
(* PDF.createPDF                                                           *)
(***************************************************************************)
\* max([len(y) for y in x.split('\n')])
RECURSIVE MaxLen(_)
MaxLen(lines) ==
    IF lines = << >> THEN 0 ELSE Max(Len(Head(lines)), MaxLen(Tail(lines)))

MaxLineLen(x) == MaxLen(Split(x, NL))

\* key(x) < key(y) for key=lambda x: -max(...)
LengthBefore(x, y) == -MaxLineLen(x) < -MaxLineLen(y)

RECURSIVE InsertByLength(_, _)
InsertByLength(x, seq) ==
    IF seq = << >> THEN << x >>
    ELSE IF LengthBefore(x, Head(seq)) THEN << x >> \o seq
    ELSE << Head(seq) >> \o InsertByLength(x, Tail(seq))

\* sorted(addresses, key=...), a stable sort into a new list
RECURSIVE SortedByLength(_)
SortedByLength(as) ==
    IF as = << >> THEN << >>
    ELSE InsertByLength(as[Len(as)], SortedByLength(SubSeq(as, 1, Len(as) - 1)))

\* variant: no padding of an odd list
Padded_Never(as) == as

\* if len(addresses) % 2: addresses.append("")
Padded(as) == IF Len(as) % 2 = 1 THEN Append(as, EmptyStr) ELSE as

\* variant: neighbours paired where the halves should be
CutAndStack_Neighbours(as, L) ==
    Zip(EveryOther(as, 0, 2 * L), EveryOther(as, 1, 2 * L))

\* list(zip(addresses[0:L], addresses[L:]))
CutAndStack(as, L) == Zip(PySlice(as, 0, L), PySlice(as, L, Len(as)))

\* list(zip(addresses[0:2*L:2], addresses[1:2*L:2]))
Consecutive(as, L) == Zip(EveryOther(as, 0, 2 * L), EveryOther(as, 1, 2 * L))

\* variant: test mode not looked at
UseCutAndStack_IgnoringTest(sort, test) == sort

\* self.sortByZip and not testMode
UseCutAndStack(sort, test) == sort /\ ~test

\* the numPerPage == 2 branch, on the list already padded
Paired(as, sort, test) ==
    LET L == Len(as) \div 2
    IN  IF UseCutAndStack(sort, test) THEN CutAndStack(as, L) ELSE Consecutive(as, L)

\* variant: one unit too many, addresses[0:numPages+1]
Truncated_OneMore(units, n) == PySlice(units, 0, n + 1)

\* addresses[0:numPages]
Truncated(units, n) == PySlice(units, 0, n)

\* the pages of the two rendering loops
RECURSIVE RenderAll(_, _, _)
RenderAll(units, npp, onlyVerso) ==
    IF units = << >> THEN << >>
    ELSE (IF npp = 1 THEN NewPageOne(Head(units), onlyVerso)
          ELSE NewPageTwo(Head(units)[1], Head(units)[2], onlyVerso))
         \o RenderAll(Tail(units), npp, onlyVerso)

CreatePDF ==
    /\ pc = "create"
    /\ \E np \in -1..MaxPages, test \in BOOLEAN :
          LET \* addresses = self.addresses, or a sorted copy in test mode
              local == IF test THEN SortedByLength(addresses) ELSE addresses
              padded == IF numPerPage = 2 THEN Padded(local) ELSE local
              units == IF numPerPage = 2 THEN Paired(padded, sortByZip, test) ELSE padded
              shown == Truncated(units, np)
          IN  /\ numPages' = np
              /\ testMode' = test
              /\ entry' = addresses
              \* without test mode the local list is self.addresses itself
              /\ addresses' = IF test THEN addresses ELSE padded
              /\ grouped' = units
              /\ rendered' = shown
              /\ pages' = pages \o RenderAll(shown, numPerPage, test)
              /\ written' = written + 1
              /\ pc' = "done"
    /\ UNCHANGED << table, files, tableRead, numPerPage, sortByZip, headerLines,
                    aR, allRows >>

(***************************************************************************)
(* doit, extractImgsFromPDF and PDF.__init__                               *)
(***************************************************************************)
\* page counts of the -i document that are tried; 0 stands for no -i option
PageCounts == {0, 1, 2}

\* doit up to the constructor call: the images come from the command line,
\* or extractImgsFromPDF writes them, or raises on a document under 2 pages
ResolveImages ==
    /\ pc = "start"
    /\ \E inPDF \in PageCounts :
          IF inPDF = 0
          THEN /\ pc' = "init"
               /\ UNCHANGED files
          ELSE IF inPDF < 2
               THEN /\ pc' = "nopages"
                    /\ UNCHANGED files
               ELSE /\ files' = files \cup {"recto_.png", "verso_.png"}
                    /\ pc' = "init"
    /\ UNCHANGED << table, tableRead, numPerPage, sortByZip, addresses, headerLines,
                    aR, allRows, numPages, testMode, entry, grouped, rendered,
                    pages, written >>

\* -npp values tried
NppChoices == {1, 2, 3}

\* PDF.__init__
Construct ==
    /\ pc = "init"
    /\ \E npp \in NppChoices :
          IF npp \notin {1, 2}
          THEN /\ pc' = "rejected"
               /\ UNCHANGED << numPerPage, addresses, sortByZip >>
          ELSE /\ numPerPage' = npp
               /\ addresses' = << >>
               /\ sortByZip' = FALSE
               /\ pc' = "list"
    /\ UNCHANGED << table, files, tableRead, headerLines, aR, allRows, numPages,
                    testMode, entry, grouped, rendered, pages, written >>

Init ==
    /\ pc = "start"
    /\ table \in Tables
    /\ files = {}
    /\ tableRead = FALSE
    /\ numPerPage = 0
    /\ sortByZip = FALSE
    /\ addresses = << >>
    /\ headerLines = 0
    /\ aR = << >>
    /\ allRows = << >>
    /\ numPages = 0
    /\ testMode = FALSE
    /\ entry = << >>
    /\ grouped = << >>
    /\ rendered = << >>
    /\ pages = << >>
    /\ written = 0

Next == ResolveImages \/ Construct \/ SetAddressList \/ CreatePDF

Spec == Init /\ [][Next]_vars

(***************************************************************************)
(* Vocabulary of the properties.                                           *)
(***************************************************************************)
Count(x, seq) == Cardinality({k \in 1..Len(seq) : seq[k] = x})

Range(seq) == {seq[k] : k \in 1..Len(seq)}

\* the two slots of every pair, in print order
Flat(pairs) ==
    [k \in 1..(2 * Len(pairs)) |-> pairs[(k + 1) \div 2][IF k % 2 = 1 THEN 1 ELSE 2]]

SameElements(s, t) ==
    /\ Len(s) = Len(t)
    /\ \A x \in Range(s) \cup Range(t) : Count(x, s) = Count(x, t)

Created == pc = "done"

\* the data rows of the last setAddressList call, fields stripped
DataRows == ReadRows(table, headerLines)

IsFragment(row) == Len(row) < 5

(***************************************************************************)
(* C1: with numPerPage = 2, sortByZip set and testMode off, an even number *)
(* N of stored addresses and numPages >= N/2, the units rendered are       *)
(* exactly (address[i], address[i + N/2]) for i = 0 .. N/2-1, in order.    *)
(***************************************************************************)
C1_CutAndStackPairs ==
    (/\ Created
     /\ numPerPage = 2
     /\ sortByZip
     /\ ~testMode
     /\ Len(entry) % 2 = 0
     /\ numPages >= Len(entry) \div 2)
    => rendered = [k \in 1..(Len(entry) \div 2) |->
                      << entry[k], entry[k + Len(entry) \div 2] >>]

\* four addresses, the halves differing from the consecutive pairs
C1_Witness ==
    /\ Created
    /\ numPerPage = 2
    /\ sortByZip
    /\ ~testMode
    /\ Len(entry) = 4
    /\ numPages >= 2
    /\ Len(rendered) = 2
    /\ rendered[1] # << entry[1], entry[2] >>

(***************************************************************************)
(* C2: with numPerPage = 2, whenever sortByZip is not set or testMode is   *)
(* on, the units rendered are the consecutive pairs (a[2i], a[2i+1]) of    *)
(* the list a being grouped: the stored list (padded to even length), or   *)
(* in testMode that list reordered by descending maximum line length.      *)
(***************************************************************************)
C2_ConsecutivePairs ==
    (Created /\ numPerPage = 2 /\ (~sortByZip \/ testMode))
    => LET a == Flat(grouped)
           real == SubSeq(a, 1, Len(entry))
       IN  /\ Len(a) = Len(entry) + (Len(entry) % 2)
           /\ \A k \in (Len(entry) + 1)..Len(a) : a[k] = EmptyStr
           /\ ~testMode => real = entry
           /\ testMode =>
                 /\ SameElements(real, entry)
                 /\ \A i, j \in 1..Len(real) :
                       i < j => MaxLineLen(real[i]) >= MaxLineLen(real[j])
           /\ \A k \in 1..Len(rendered) : rendered[k] = << a[2 * k - 1], a[2 * k] >>
           /\ numPages >= Len(grouped) => Len(rendered) = Len(grouped)

\* test mode overriding the cut-and-stack pairing of a zip-sorted list that
\* the length order really reorders
C2_Witness ==
    /\ Created
    /\ numPerPage = 2
    /\ sortByZip
    /\ testMode
    /\ Len(entry) = 4
    /\ Len(rendered) = 2
    /\ entry # Flat(grouped)
    /\ rendered[1] # << entry[1], entry[3] >>

(***************************************************************************)
(* C3: with numPerPage = 2 and an odd number of addresses, exactly one     *)
(* empty address is appended before pairing, the last unit of the grouped  *)
(* sequence has an empty second slot, under either pairing, and every real *)
(* address is in the grouped sequence.                                     *)
(***************************************************************************)
C3_OddPadding ==
    (Created /\ numPerPage = 2 /\ Len(entry) % 2 = 1)
    => LET a == Flat(grouped)
       IN  /\ Len(a) = Len(entry) + 1
           /\ grouped[Len(grouped)][2] = EmptyStr
           /\ \A x \in Range(entry) \cup Range(a) :
                 Count(x, a) = Count(x, entry) + (IF x = EmptyStr THEN 1 ELSE 0)

C3_Witness ==
    /\ Created
    /\ numPerPage = 2
    /\ sortByZip
    /\ ~testMode
    /\ Len(entry) = 3
    /\ Len(grouped) = 2
    /\ grouped[2][2] = EmptyStr

(***************************************************************************)
(* C4: for numPages = k >= 0 exactly min(k, total units) units are         *)
(* rendered, the first ones of the sequence grouped from the complete      *)
(* address list: truncation comes after padding and pairing.               *)
(***************************************************************************)
C4_Truncation ==
    (Created /\ numPages >= 0)
    => LET total == IF numPerPage = 2 THEN (Len(entry) + 1) \div 2 ELSE Len(entry)
           n == Min(numPages, total)
       IN  /\ Len(grouped) = total
           /\ Len(rendered) = n
           /\ rendered = SubSeq(grouped, 1, n)
           /\ \A x \in Range(entry) :
                 Count(x, IF numPerPage = 2 THEN Flat(grouped) ELSE grouped)
                    >= Count(x, entry)

\* three addresses on two sheets, one sheet asked for
C4_Witness ==
    /\ Created
    /\ numPerPage = 2
    /\ Len(entry) = 3
    /\ numPages = 1
    /\ Len(grouped) = 2
    /\ Len(rendered) = 1
    /\ rendered[1] = grouped[1]

(***************************************************************************)
(* C5: when every data row is a 5-field row or a fragment immediately      *)
(* followed by a 5-field row, a fragment and its successor yield exactly   *)
(* one record: the combined field (the fragment's fields joined by         *)
(* newlines, plus one trailing newline) followed by the successor's        *)
(* fields; a fragment yields no record of its own, so there are as many    *)
(* addresses as 5-field rows.                                              *)
(***************************************************************************)
WellShaped(data) ==
    \A k \in 1..Len(data) :
        IF IsFragment(data[k])
        THEN k < Len(data) /\ Len(data[k + 1]) = 5
        ELSE Len(data[k]) = 5

FiveFieldRows(data) ==
    SelectSeq([k \in 1..Len(data) |-> k], LAMBDA k : Len(data[k]) = 5)

ExpectedRecords(data) ==
    LET at == FiveFieldRows(data)
    IN  [n \in 1..Len(at) |->
            LET k == at[n]
            IN  IF k > 1 /\ IsFragment(data[k - 1])
                THEN << Join(data[k - 1], << NL >>) \o << NL >> >> \o data[k]
                ELSE data[k]]

C5_RowRepair ==
    (tableRead /\ WellShaped(DataRows))
    => /\ pc # "failed"
       /\ aR = ExpectedRecords(DataRows)
       /\ Len(allRows) = Len(FiveFieldRows(DataRows))
       /\ pc = "create" => Len(addresses) = Len(FiveFieldRows(DataRows))

\* a fragment merged into its successor, next to a row left alone
C5_Witness ==
    /\ pc = "create"
    /\ WellShaped(DataRows)
    /\ Len(DataRows) = 3
    /\ \E k \in 1..Len(DataRows) : IsFragment(DataRows[k])
    /\ Len(addresses) = 2
    /\ \E k \in 1..Len(aR) : Len(aR[k]) = 6

(***************************************************************************)
(* C6: when the last data row is a fragment, setAddressList fails with an  *)
(* error and leaves the stored address list as it was before the call      *)
(* (empty, as the constructor left it).                                    *)
(***************************************************************************)
C6_LastFragmentFails ==
    (/\ tableRead
     /\ DataRows # << >>
     /\ IsFragment(DataRows[Len(DataRows)]))
    => (pc = "failed" /\ addresses = << >>)

(***************************************************************************)
(* C7: with sortByZip set, setAddressList orders the repaired records by   *)
(* their last field compared as strings, and records with the same ZIP     *)
(* keep the relative order they had in the table.                          *)
(***************************************************************************)
WithZip(rows, z) == SelectSeq(rows, LAMBDA r : r[Len(r)] = z)

C7_StableZipSort ==
    (pc \in {"create", "done"} /\ sortByZip)
    => /\ SameElements(allRows, aR)
       /\ \A i, j \in 1..Len(allRows) :
             i < j => ~StrLess(allRows[j][Len(allRows[j])], allRows[i][Len(allRows[i])])
       /\ \A r \in Range(aR) : WithZip(allRows, r[Len(r)]) = WithZip(aR, r[Len(r)])
       /\ pc = "create" =>
             addresses = [k \in 1..Len(allRows) |-> AddressString(allRows[k])]

\* the sort moves records, "10" goes before "2", and two different records
\* share a ZIP
C7_Witness ==
    /\ pc = "create"
    /\ sortByZip
    /\ allRows # aR
    /\ \E i, j \in 1..Len(allRows) :
          /\ i < j
          /\ allRows[i] # allRows[j]
          /\ allRows[i][Len(allRows[i])] = << 49, 48 >>
          /\ allRows[j][Len(allRows[j])] = << 49, 48 >>
    /\ \E k \in 1..Len(allRows) : allRows[k][Len(allRows[k])] = << 50 >>

(***************************************************************************)
(* C8: a prints-per-sheet value other than 1 or 2 is rejected before any   *)
(* processing: no image extraction, no table read, no page and no output   *)
(* write comes before the rejection.                                       *)
(***************************************************************************)
C8_RejectedBeforeProcessing ==
    pc = "rejected" =>
        (files = {} /\ ~tableRead /\ pages = << >> /\ written = 0)

(***************************************************************************)
(* C9: with numPerPage = 2 every sheet emitted carries two placements of   *)
(* the same image, one above the other.                                    *)
(***************************************************************************)
C9_TwoImagesPerSheet ==
    numPerPage = 2 =>
        \A k \in 1..Len(pages) :
            /\ Len(pages[k].images) = 2
            /\ pages[k].images[1].img = pages[k].images[2].img
            /\ pages[k].images[1].y < pages[k].images[2].y

(***************************************************************************)
(* C10: createPDF leaves the stored address list as setAddressList made    *)
(* it, the same sequence of the same length.                               *)
(***************************************************************************)
C10_AddressesNotMutated == Created => addresses = entry

=============================================================================
